---------------------------- MODULE Spec2Model ----------------------------
(***************************************************************************)
(* A model of Encyclopinya (PinyaBot): the config store and its read       *)
(* cache (core/config_manager.py), the retrieval query of the knowledge    *)
(* base (utils/ai.py), the teach / edit path (cogs/knowledge.py) and the   *)
(* mention pipeline (cogs/query.py).                                       *)
(*                                                                         *)
(* Conventions.                                                            *)
(*  - A similarity or a threshold is an integer number of hundredths:      *)
(*    0.5 is 50, 0.9 is 90.                                                *)
(*  - An embedding is a small integer vector; the cosine of two of them is *)
(*    computed from their dot product and norms.                           *)
(*  - A Python str that the code splits, joins or concatenates is a        *)
(*    sequence of symbols; "" is << >>.                                    *)
(*  - Every await of an external service (database, embedding provider,    *)
(*    language model, Discord send) is a step that may fail.               *)
(***************************************************************************)
EXTENDS Integers, Sequences, FiniteSets, TLC

VARIABLES
    docs,       \* table pinya_docs: id -> [topic, content, embedding, metadata]
    nextId,     \* the SERIAL sequence behind pinya_docs.id
    aliases,    \* table aliases: trigger -> replacement
    config,     \* table config: key -> value
    cache,      \* ConfigManager._cache
    provider,   \* the embedding provider, as far as it has been asked: text -> vector
    searches,   \* the last call of AI.search_knowledge_base, if any: <<[text, threshold, rows]>>
    booted,     \* setup_hook has run load_cache
    cfgTasks,   \* ConfigManager.set / delete calls in flight
    committed,  \* history: every <<key, value>> the config table has held
    reads,      \* the last ConfigManager.get: [key, value]
    kTasks,     \* upsert_knowledge calls in flight
    audit,      \* embeds sent to the audit-log channel
    msgs,       \* on_message invocations
    gaps,       \* embeds sent to the knowledge-gaps channel
    current_avatar_state,  \* PinyaBot.current_avatar_state
    avatar,     \* the avatar the account has at Discord
    avTasks,    \* update_status calls and the update_avatar calls they lead to
    requested   \* history: the state of the latest update_avatar call made by update_status

vars == <<docs, nextId, aliases, config, cache, provider, searches, booted,
          cfgTasks, committed, reads, kTasks, audit, msgs, gaps,
          current_avatar_state, avatar, avTasks, requested>>

\* Python's None, told apart from every str: no str holds this symbol.
None == <<"<None>">>

\* ------------------------------------------------------------------ bounds

MaxStoreDocs == 4
MaxCfgTasks == 2
MaxTasks == 2
MaxMsgs == 2
MaxAsks == 2
MaxStatus == 2

\* ------------------------------------------------------- program constants

\* LIMIT 3
SearchLimit == 3
\* check_duplicate(text, threshold=0.9), in hundredths
DupThreshold == 90
\* ConfigManager.get("ai_threshold", "0.5"), in hundredths
DefaultThreshold == 50

\* ------------------------------------------------------------- embeddings

Vectors == {<<1, 0>>, <<3, 4>>, <<4, 3>>}

Dot(a, b) == a[1] * b[1] + a[2] * b[2]

Norm(a) == CHOOSE n \in 0..10 : n * n = Dot(a, a)

\* pgvector's a <=> b, the cosine distance 1 - cos(a, b), in hundredths
CosineDistance100(a, b) == 100 - ((100 * Dot(a, b)) \div (Norm(a) * Norm(b)))

\* The embedding provider is a fixed function of the text, unknown to the
\* program: a text asked for the first time gets any vector, and the same
\* vector ever after.
EmbedChoices(prov, text) ==
    IF text \in DOMAIN prov THEN {prov[text]} ELSE Vectors

Remember(prov, text, vec) ==
    [x \in DOMAIN prov \cup {text} |-> IF x = text THEN vec ELSE prov[x]]

\* ---------------------------------------------------- search_knowledge_base

Thresholds == {20, 50, 60, 90}

\* 1 - (embedding <=> $1) as similarity
Similarity(embedding, queryVec) == 100 - CosineDistance100(embedding, queryVec)

\* WHERE 1 - (embedding <=> $1) > $2
Qualifies_NonStrict(embedding, queryVec, threshold) ==
    Similarity(embedding, queryVec) >= threshold

Qualifies_Inverted(embedding, queryVec, threshold) ==
    Similarity(embedding, queryVec) < threshold

Qualifies(embedding, queryVec, threshold) ==
    Similarity(embedding, queryVec) > threshold

Min(a, b) == IF a <= b THEN a ELSE b

\* LIMIT 3
RowLimit_Unlimited(n) == n

RowLimit(n) == Min(n, SearchLimit)

\* ORDER BY similarity DESC
OrderedDesc_Asc(store, queryVec, s) ==
    \A i, j \in DOMAIN s :
        i < j => Similarity(store[s[i]].embedding, queryVec)
                     <= Similarity(store[s[j]].embedding, queryVec)

OrderedDesc(store, queryVec, s) ==
    \A i, j \in DOMAIN s :
        i < j => Similarity(store[s[i]].embedding, queryVec)
                     >= Similarity(store[s[j]].embedding, queryVec)

Row(store, queryVec, id) ==
    [id |-> id, topic |-> store[id].topic, content |-> store[id].content,
     metadata |-> store[id].metadata,
     similarity |-> Similarity(store[id].embedding, queryVec)]

\* The id sequences the SELECT may return: the qualifying rows in
\* non-increasing similarity, cut to the limit.  SQL leaves the order of
\* rows of equal similarity open, so there may be several.
SelectIds(store, queryVec, threshold) ==
    LET qual == {d \in DOMAIN store : Qualifies(store[d].embedding, queryVec, threshold)}
        n    == RowLimit(Cardinality(qual))
    IN  {s \in [1..n -> qual] :
            /\ \A i, j \in 1..n : i # j => s[i] # s[j]
            /\ OrderedDesc(store, queryVec, s)
            /\ \A d \in qual \ {s[i] : i \in 1..n} :
                   n > 0 => OrderedDesc(store, queryVec, <<s[n], d>>)}

SearchRows(store, queryVec, threshold) ==
    {[i \in DOMAIN s |-> Row(store, queryVec, s[i])] :
        s \in SelectIds(store, queryVec, threshold)}

\* --------------------------------------------------------- knowledge rows

Users == {1, 2}

Topics == {"Fishing", "Farming"}

Contents == {"Use a rod", "Plant seeds"}

\* metadata = {"votes": 0, "flags": 0, "is_spoiler": ..., "author_id": user.id}
InsertMetadata(isSpoiler, user) ==
    [votes |-> 0, flags |-> 0, is_spoiler |-> isSpoiler, author_id |-> user]

\* ------------------------------------- the retrieval query on a given store
\* One call of search_knowledge_base per behaviour, on any store of taught
\* records, for any query text and threshold.

QueryTexts == {<<"how", "to", "fish">>, <<"ip">>}

\* The stores of up to MaxStoreDocs taught records, by their embeddings.
TaughtStores ==
    UNION {[1..n -> [topic : {"Fishing"}, content : {"Use a rod"},
                     embedding : Vectors,
                     metadata : {InsertMetadata(FALSE, 1)}]] : n \in 0..MaxStoreDocs}

NoConfigState ==
    /\ config = << >> /\ cache = << >> /\ booted = TRUE
    /\ cfgTasks = << >> /\ committed = {} /\ reads = << >>

NoKnowledgeTasks == kTasks = << >> /\ audit = << >>

NoMessages == msgs = << >> /\ gaps = << >> /\ aliases = << >>

\* self.current_avatar_state = None; no str is this value.
NoAvatarState == "<None>"

avatarVars == <<current_avatar_state, avatar, avTasks, requested>>

\* The bot as __init__ leaves it, with no update_status under way.
NoAvatar ==
    /\ current_avatar_state = NoAvatarState /\ avatar = NoAvatarState
    /\ avTasks = << >> /\ requested = NoAvatarState

SearchInit ==
    /\ docs \in TaughtStores
    /\ nextId = Len(docs) + 1
    /\ provider = << >>
    /\ searches = << >>
    /\ NoConfigState /\ NoKnowledgeTasks /\ NoMessages
    /\ NoAvatar

\* AI.search_knowledge_base(text, threshold): embed the text, run the SELECT.
SearchReturns(text, threshold) ==
    \E vec \in EmbedChoices(provider, text) :
        \E rows \in SearchRows(docs, vec, threshold) :
            /\ provider' = Remember(provider, text, vec)
            /\ searches' = <<[text |-> text, threshold |-> threshold, vec |-> vec,
                    raised |-> FALSE, rows |-> rows]>>

\* get_embedding or Database.fetch raises: the call returns nothing.
SearchRaises(text, threshold) ==
    /\ provider' = provider
    /\ searches' = <<[text |-> text, threshold |-> threshold, vec |-> <<0, 0>>,
            raised |-> TRUE, rows |-> << >>]>>

SearchCall ==
    /\ searches = << >>
    /\ \E text \in QueryTexts, threshold \in Thresholds :
           \/ SearchReturns(text, threshold)
           \/ SearchRaises(text, threshold)
    /\ UNCHANGED <<docs, nextId, aliases, config, cache, booted, cfgTasks,
                   committed, reads, kTasks, audit, msgs, gaps, avatarVars>>

SearchNext == SearchCall

SpecSearch == SearchInit /\ [][SearchNext]_vars

\* C1: a search that returns gives only records whose similarity to the
\* query embedding, 1 - cosine distance, is strictly greater than the
\* threshold, in non-increasing order of similarity, and at most 3 of them.
C1_SearchSound ==
    \A c \in DOMAIN searches :
        LET call == searches[c]
            rows == call.rows
        IN  ~call.raised =>
              /\ call.vec = provider[call.text]
              /\ Len(rows) <= 3
              /\ \A k \in DOMAIN rows :
                    /\ rows[k].id \in DOMAIN docs
                    /\ rows[k].similarity
                         = 100 - CosineDistance100(docs[rows[k].id].embedding, call.vec)
                    /\ rows[k].similarity > call.threshold
              /\ \A k \in DOMAIN rows :
                    k < Len(rows) => rows[k].similarity >= rows[k + 1].similarity

\* Three rows of different similarity came back, and a stored record whose
\* similarity equals the threshold was left out.
C1_Witness ==
    \E c \in DOMAIN searches :
        LET call == searches[c]
        IN  /\ ~call.raised
            /\ Len(call.rows) = 3
            /\ call.rows[1].similarity > call.rows[3].similarity
            /\ \E d \in DOMAIN docs :
                   100 - CosineDistance100(docs[d].embedding, call.vec) = call.threshold

\* C10: on the same store and for the same query, a search at a higher
\* threshold never returns more records than one at a lower threshold.
C10_ThresholdMonotone ==
    \A c \in DOMAIN searches :
        LET call == searches[c]
        IN  ~call.raised =>
              \A t2 \in Thresholds :
                  \A rows2 \in SearchRows(docs, call.vec, t2) :
                      /\ call.threshold <= t2 => Len(rows2) <= Len(call.rows)
                      /\ t2 <= call.threshold => Len(call.rows) <= Len(rows2)

\* More than 3 records qualify at the lower threshold, so the limit cuts
\* the result to 3, and fewer than 3 qualify at a higher one.
C10_Witness ==
    \E c \in DOMAIN searches :
        LET call == searches[c]
        IN  /\ ~call.raised
            /\ Len(call.rows) = 3
            /\ Cardinality({d \in DOMAIN docs :
                   100 - CosineDistance100(docs[d].embedding, call.vec)
                       > call.threshold}) > 3
            /\ \E t2 \in Thresholds :
                   /\ t2 > call.threshold
                   /\ \E rows2 \in SearchRows(docs, call.vec, t2) :
                          Len(rows2) \in 1..2

\* ------------------------------------------------------------ ConfigManager

ConfigKeys == {"ai_threshold", "global_reply_enabled"}

\* What callers hand to set: a str, or a value that str() has to convert.
PyValues ==
    {[py |-> "str", v |-> <<"0", ".", "5">>],
     [py |-> "str", v |-> <<"false">>],
     [py |-> "int", v |-> 17]}

Digits == <<"0", "1", "2", "3", "4", "5", "6", "7", "8", "9">>

RECURSIVE IntStr(_)
IntStr(n) ==
    IF n < 10 THEN <<Digits[n + 1]>>
    ELSE IntStr(n \div 10) \o <<Digits[(n % 10) + 1]>>

\* str(value)
PyStr(x) == IF x.py = "str" THEN x.v ELSE IntStr(x.v)

\* The config rows an earlier run of the bot may have left behind.
InitialConfigs ==
    {<< >>, [k \in {"ai_threshold"} |-> <<"0", ".", "2">>]}

\* cls._cache.get(key, default)
Get(c, key, default) == IF key \in DOMAIN c THEN c[key] ELSE default

\* INSERT INTO config ... ON CONFLICT (key) DO UPDATE SET value = $2
ConfigUpsert(table, key, value) ==
    [k \in DOMAIN table \cup {key} |-> IF k = key THEN value ELSE table[k]]

\* DELETE FROM config WHERE key = $1
ConfigDelete(table, key) == [k \in DOMAIN table \ {key} |-> table[k]]

\* cls._cache[key] = str(value)
CacheAfterSet_Skip(c, key, x) == c

CacheAfterSet(c, key, x) ==
    [k \in DOMAIN c \cup {key} |-> IF k = key THEN PyStr(x) ELSE c[k]]

\* if key in cls._cache: del cls._cache[key]
CacheAfterDelete(c, key) ==
    IF key \in DOMAIN c THEN [k \in DOMAIN c \ {key} |-> c[k]] ELSE c

CfgIdle == [op |-> "none", key |-> "", value |-> [py |-> "str", v |-> << >>],
            pc |-> "idle", dbOk |-> FALSE, got |-> None]

ConfigInit ==
    /\ config \in InitialConfigs
    /\ cache = << >>
    /\ booted = FALSE
    /\ cfgTasks = [t \in 1..MaxCfgTasks |-> CfgIdle]
    /\ committed = {<<k, config[k]>> : k \in DOMAIN config}
    /\ reads = << >>
    /\ docs = << >> /\ nextId = 1 /\ provider = << >> /\ searches = << >>
    /\ NoKnowledgeTasks /\ NoMessages
    /\ NoAvatar

NotConfig == <<docs, nextId, aliases, provider, searches, kTasks, audit, msgs, gaps,
        avatarVars>>

\* ConfigManager.load_cache, run once by setup_hook before any cog is loaded.
LoadCache ==
    /\ booted = FALSE
    /\ booted' = TRUE
    /\ cache' = [k \in DOMAIN config |-> config[k]]
    /\ UNCHANGED <<config, cfgTasks, committed, reads>>
    /\ UNCHANGED NotConfig

\* ConfigManager.get: no await in it, so it runs in one turn of the event loop.
GetCall(key) ==
    /\ booted
    /\ reads' = <<[key |-> key, value |-> Get(cache, key, None)]>>
    /\ UNCHANGED <<config, cache, booted, cfgTasks, committed>>
    /\ UNCHANGED NotConfig

\* ConfigManager.set up to its await: the statement reaches the database,
\* which commits it (ok) or fails it; the task sleeps until the reply.
SetExecute_CacheFirst(t, key, x, ok) ==
    /\ booted
    /\ cfgTasks[t].pc = "idle"
    /\ cfgTasks' = [cfgTasks EXCEPT ![t] =
           [op |-> "set", key |-> key, value |-> x, pc |-> "awaiting",
            dbOk |-> ok, got |-> None]]
    /\ cache' = CacheAfterSet(cache, key, x)
    /\ IF ok
       THEN /\ config' = ConfigUpsert(config, key, PyStr(x))
            /\ committed' = committed \cup {<<key, PyStr(x)>>}
       ELSE UNCHANGED <<config, committed>>
    /\ UNCHANGED <<booted, reads>>
    /\ UNCHANGED NotConfig

SetExecute(t, key, x, ok) ==
    /\ booted
    /\ cfgTasks[t].pc = "idle"
    /\ cfgTasks' = [cfgTasks EXCEPT ![t] =
           [op |-> "set", key |-> key, value |-> x, pc |-> "awaiting",
            dbOk |-> ok, got |-> None]]
    /\ IF ok
       THEN /\ config' = ConfigUpsert(config, key, PyStr(x))
            /\ committed' = committed \cup {<<key, PyStr(x)>>}
       ELSE UNCHANGED <<config, committed>>
    /\ UNCHANGED <<cache, booted, reads>>
    /\ UNCHANGED NotConfig

\* ConfigManager.set after its await: the exception of a failed statement
\* leaves set at once; otherwise the cache line runs and set returns.  The
\* caller's next ConfigManager.get of the key runs in the same turn of the
\* event loop (neither has another await); its result is kept in got.
SetResume(t) ==
    /\ cfgTasks[t].op = "set" /\ cfgTasks[t].pc = "awaiting"
    /\ IF cfgTasks[t].dbOk
       THEN /\ cache' = CacheAfterSet(cache, cfgTasks[t].key, cfgTasks[t].value)
            /\ cfgTasks' = [cfgTasks EXCEPT ![t].pc = "returned",
                                            ![t].got = Get(cache', cfgTasks[t].key, None)]
       ELSE /\ cache' = cache
            /\ cfgTasks' = [cfgTasks EXCEPT ![t].pc = "raised"]
    /\ UNCHANGED <<config, booted, committed, reads>>
    /\ UNCHANGED NotConfig

\* ConfigManager.delete up to its await.
DeleteExecute(t, key, ok) ==
    /\ booted
    /\ cfgTasks[t].pc = "idle"
    /\ cfgTasks' = [cfgTasks EXCEPT ![t] =
           [op |-> "delete", key |-> key, value |-> CfgIdle.value, pc |-> "awaiting",
            dbOk |-> ok, got |-> None]]
    /\ config' = IF ok THEN ConfigDelete(config, key) ELSE config
    /\ UNCHANGED <<cache, booted, committed, reads>>
    /\ UNCHANGED NotConfig

\* ConfigManager.delete after its await.
DeleteResume(t) ==
    /\ cfgTasks[t].op = "delete" /\ cfgTasks[t].pc = "awaiting"
    /\ IF cfgTasks[t].dbOk
       THEN /\ cache' = CacheAfterDelete(cache, cfgTasks[t].key)
            /\ cfgTasks' = [cfgTasks EXCEPT ![t].pc = "returned",
                                            ![t].got = Get(cache', cfgTasks[t].key, None)]
       ELSE /\ cache' = cache
            /\ cfgTasks' = [cfgTasks EXCEPT ![t].pc = "raised"]
    /\ UNCHANGED <<config, booted, committed, reads>>
    /\ UNCHANGED NotConfig

ConfigNext ==
    \/ LoadCache
    \/ \E key \in ConfigKeys : GetCall(key)
    \/ \E t \in 1..MaxCfgTasks, key \in ConfigKeys, x \in PyValues, ok \in BOOLEAN :
           SetExecute(t, key, x, ok)
    \/ \E t \in 1..MaxCfgTasks : SetResume(t)
    \/ \E t \in 1..MaxCfgTasks, key \in ConfigKeys, ok \in BOOLEAN :
           DeleteExecute(t, key, ok)
    \/ \E t \in 1..MaxCfgTasks : DeleteResume(t)

SpecConfig == ConfigInit /\ [][ConfigNext]_vars

\* C3: set and delete write to the config table first and touch the cache
\* only after that write succeeded.  The cache never holds, for a key, a
\* value the table never held for that key; issuing the statement leaves
\* the cache alone; a failed statement leaves the cache alone and the call
\* ends by raising; a call returns only after its statement succeeded.
C3_WriteThenCache ==
    /\ [](\A k \in DOMAIN cache : <<k, cache[k]>> \in committed)
    /\ [][\A t \in DOMAIN cfgTasks :
            /\ (cfgTasks[t].pc = "idle" /\ cfgTasks'[t].pc = "awaiting")
                   => cache' = cache
            /\ (cfgTasks[t].pc = "awaiting" /\ ~cfgTasks[t].dbOk
                    /\ cfgTasks'[t].pc # "awaiting")
                   => (cache' = cache /\ cfgTasks'[t].pc = "raised")
            /\ (cfgTasks[t].pc # "returned" /\ cfgTasks'[t].pc = "returned")
                   => (cfgTasks[t].pc = "awaiting" /\ cfgTasks[t].dbOk)
          ]_vars

\* One set raised and its value is not in the cache; another set returned
\* and its value is.
C3_Witness ==
    \E t, u \in DOMAIN cfgTasks :
        /\ cfgTasks[t].op = "set" /\ cfgTasks[t].pc = "raised"
        /\ Get(cache, cfgTasks[t].key, None) # PyStr(cfgTasks[t].value)
        /\ cfgTasks[u].op = "set" /\ cfgTasks[u].pc = "returned"
        /\ Get(cache, cfgTasks[u].key, None) = PyStr(cfgTasks[u].value)

\* C4: once load_cache has run, whenever no set or delete is in flight the
\* cache maps every key to exactly the value stored in the config table.
C4_CacheCoherent ==
    (booted /\ \A t \in DOMAIN cfgTasks : cfgTasks[t].pc # "awaiting")
        => cache = config

\* C5: a set that completes, followed at once by a get of the same key,
\* gives the string form of the value just set.
C5_SetThenGet ==
    \A t \in DOMAIN cfgTasks :
        (cfgTasks[t].op = "set" /\ cfgTasks[t].pc = "returned")
            => cfgTasks[t].got = PyStr(cfgTasks[t].value)

\* set(key, 17) returned and the get that followed gave "17", while the
\* last get before it was of another key and another call is in flight.
C5_Witness ==
    \E t, u \in DOMAIN cfgTasks :
        /\ cfgTasks[t].op = "set" /\ cfgTasks[t].pc = "returned"
        /\ cfgTasks[t].value = [py |-> "int", v |-> 17]
        /\ cfgTasks[t].got = <<"1", "7">>
        /\ cfgTasks[u].pc = "awaiting"
        /\ reads # << >> /\ reads[1].key # cfgTasks[t].key

\* -------------------------------------------------- Knowledge.upsert_knowledge

\* doc_id: int = None
NoDocId == -1

\* if doc_id:
Truthy(docId) == docId # NoDocId /\ docId # 0

\* What the modal hands over: topic, content, spoiler, and the user.
Submissions ==
    {[topic |-> "Fishing", content |-> "Use a rod", spoiler |-> "no", user |-> 1],
     [topic |-> "Fishing", content |-> "Use a rod", spoiler |-> "Yes", user |-> 2],
     [topic |-> "Farming", content |-> "Plant seeds", spoiler |-> "no", user |-> 2]}

\* spoiler.lower()
Lower(str) ==
    CASE str = "Yes" -> "yes"
      [] str = "YES" -> "yes"
      [] str = "Y" -> "y"
      [] str = "IP" -> "ip"
      [] OTHER -> str

\* spoiler.lower() in ['yes', 'y', 'true']
IsSpoiler(spoiler) == Lower(spoiler) \in {"yes", "y", "true"}

\* f"{topic} {content}"
DupText(topic, content) == <<topic, " ", content>>

\* f"Topic: {topic}\nContent: {content}"
EmbedText(topic, content) == <<"Topic: ", topic, "\nContent: ", content>>

DupWarning ==
    <<"This content seems very similar to existing knowledge. Consider using /edit instead.">>

\* f"An error occurred while saving: {e}"
SaveError == <<"An error occurred while saving: ", "e">>

\* update_meta = {"is_spoiler": ..., "last_editor_id": user.id}
UpdateMetadata(isSpoiler, user) == [is_spoiler |-> isSpoiler, last_editor_id |-> user]

\* metadata || $4::jsonb
JsonbMerge_Replace(old, new) == new

JsonbMerge(old, new) ==
    [k \in DOMAIN old \cup DOMAIN new |-> IF k \in DOMAIN new THEN new[k] ELSE old[k]]

\* if doc_id is None and check_dup:
NeedsDupCheck_Always(docId, checkDup) == checkDup

NeedsDupCheck(docId, checkDup) == docId = NoDocId /\ checkDup

\* is_dup = len(results) > 0
IsDup_Never(rows) == FALSE

IsDup(rows) == Len(rows) > 0

\* Channel ids bot.get_channel resolves.
LiveChannels == {<<"1", "1">>}

KIdle == [topic |-> "", content |-> "", spoiler |-> "", user |-> 0,
          doc_id |-> NoDocId, check_dup |-> TRUE, pc |-> "idle",
          action |-> "", final_id |-> NoDocId, origin |-> 0,
          snapshot |-> {},
          result |-> [id |-> NoDocId, error |-> None]]

\* The stores an earlier run may have left: none, or one taught record.
InitialStores ==
    {[docs |-> << >>, provider |-> << >>]} \cup
    {[docs |-> <<[topic |-> "Fishing", content |-> "Use a rod", embedding |-> v,
                  metadata |-> InsertMetadata(FALSE, 1)]>>,
      provider |-> [x \in {EmbedText("Fishing", "Use a rod")} |-> v]] : v \in Vectors}

KnowledgeConfigs ==
    {<< >>, [k \in {"channel_audit_log"} |-> <<"1", "1">>]}

KnowledgeInit ==
    /\ \E st \in InitialStores : docs = st.docs /\ provider = st.provider
    /\ nextId = Len(docs) + 1
    /\ config \in KnowledgeConfigs
    /\ cache = config
    /\ booted = TRUE
    /\ cfgTasks = << >> /\ committed = {} /\ reads = << >>
    /\ kTasks = [t \in 1..MaxTasks |-> KIdle]
    /\ audit = << >>
    /\ searches = << >>
    /\ NoMessages
    /\ NoAvatar

NotKnowledge == <<aliases, config, cache, searches, booted, cfgTasks, committed,
                  reads, msgs, gaps,
        avatarVars>>

\* UPDATE pinya_docs SET topic, content, embedding, metadata = metadata || $4
\* WHERE id = $5
UpdateDoc(store, docId, topic, content, vec, updateMeta) ==
    [d \in DOMAIN store |->
        IF d = docId
        THEN [topic |-> topic, content |-> content, embedding |-> vec,
              metadata |-> JsonbMerge(store[d].metadata, updateMeta)]
        ELSE store[d]]

\* INSERT INTO pinya_docs (topic, content, embedding, metadata) ... RETURNING id
InsertDoc(store, id, topic, content, vec, metadata) ==
    [d \in DOMAIN store \cup {id} |->
        IF d = id
        THEN [topic |-> topic, content |-> content, embedding |-> vec,
              metadata |-> metadata]
        ELSE store[d]]

\* The call with arguments c returns (id, error).  Of its frame are kept
\* doc_id, to tell the result of an edit from that of a new entry, origin,
\* the gap notification the call came from, and for such a call final_id,
\* the record it wrote if any.
Finish(t, c, id, error) ==
    kTasks' = [kTasks EXCEPT ![t] =
                  [KIdle EXCEPT !.pc = "done", !.doc_id = c.doc_id,
                                !.final_id = IF c.origin # 0 THEN c.final_id
                                                             ELSE NoDocId,
                                !.origin = c.origin,
                                !.result = [id |-> id, error |-> error]]]

\* is_dup = await AI.check_duplicate(f"{topic} {content}"), for the call
\* with arguments c: a duplicate ends the call with the warning, a failure
\* of the provider or the database with the error.
DupCheckOf(t, c) ==
    /\ \/ \E vec \in EmbedChoices(provider, DupText(c.topic, c.content)) :
            \E rows \in SearchRows(docs, vec, DupThreshold) :
                /\ provider' = Remember(provider, DupText(c.topic, c.content), vec)
                /\ IF IsDup(rows)
                   THEN Finish(t, c, NoDocId, DupWarning)
                   ELSE kTasks' = [kTasks EXCEPT ![t] = [c EXCEPT !.pc = "save"]]
       \/ /\ Finish(t, c, NoDocId, SaveError)
          /\ provider' = provider
    /\ UNCHANGED <<docs, nextId, audit>>
    /\ UNCHANGED NotKnowledge

\* The embedding of the text to store, then the UPDATE or the INSERT, for
\* the call with arguments c.
SaveOf(t, c) ==
    /\ \/ \E vec \in EmbedChoices(provider, EmbedText(c.topic, c.content)) :
            /\ provider' = Remember(provider, EmbedText(c.topic, c.content), vec)
            /\ IF Truthy(c.doc_id)
               THEN /\ docs' = UpdateDoc(docs, c.doc_id, c.topic, c.content, vec,
                                         UpdateMetadata(IsSpoiler(c.spoiler), c.user))
                    /\ nextId' = nextId
                    /\ kTasks' = [kTasks EXCEPT ![t] =
                           [c EXCEPT !.pc = "audit", !.action = "Updated",
                                     !.final_id = c.doc_id]]
               ELSE /\ docs' = InsertDoc(docs, nextId, c.topic, c.content, vec,
                                         InsertMetadata(IsSpoiler(c.spoiler), c.user))
                    /\ nextId' = nextId + 1
                    /\ kTasks' = [kTasks EXCEPT ![t] =
                           [c EXCEPT !.pc = "audit", !.action = "Added",
                                     !.final_id = nextId]]
       \/ /\ Finish(t, c, NoDocId, SaveError)
          /\ UNCHANGED <<docs, nextId, provider>>
    /\ UNCHANGED audit
    /\ UNCHANGED NotKnowledge

\* upsert_knowledge is entered, from /teach or a gap's Teach This (docId is
\* None) or from the edit modal opened on a stored record (docId), and runs
\* to the result of its first awaited call.  Calls take the task slots in
\* order.
UpsertCall(t, sub, docId) ==
    /\ kTasks[t].pc = "idle"
    /\ \A u \in 1..(t - 1) : kTasks[u].pc # "idle"
    /\ docId = NoDocId \/ docId \in DOMAIN docs
    /\ LET c == [KIdle EXCEPT !.topic = sub.topic, !.content = sub.content,
                              !.spoiler = sub.spoiler, !.user = sub.user,
                              !.doc_id = docId]
       IN  IF NeedsDupCheck(docId, c.check_dup)
           THEN DupCheckOf(t, c)
           ELSE SaveOf(t, c)

\* A new entry that passed the duplicate check goes on to be stored.
Save(t) ==
    /\ kTasks[t].pc = "save"
    /\ SaveOf(t, kTasks[t])

\* Audit with a transactional reading in which a send that raises takes the
\* stored record of a new entry back out of pinya_docs
Audit_Rollback(t) ==
    /\ kTasks[t].pc = "audit"
    /\ LET channelId == Get(cache, "channel_audit_log", None)
       IN  IF channelId = None \/ channelId \notin LiveChannels
           THEN /\ audit' = audit
                /\ docs' = docs
                /\ Finish(t, kTasks[t], kTasks[t].final_id, None)
           ELSE \/ /\ audit' = Append(audit,
                          [title |-> <<"Knowledge ", kTasks[t].action>>,
                           topic |-> kTasks[t].topic, user |-> kTasks[t].user])
                   /\ docs' = docs
                   /\ Finish(t, kTasks[t], kTasks[t].final_id, None)
                \/ /\ audit' = audit
                   /\ docs' = [d \in DOMAIN docs \ {kTasks[t].final_id} |-> docs[d]]
                   /\ Finish(t, kTasks[t], NoDocId, SaveError)
    /\ UNCHANGED <<nextId, provider>>
    /\ UNCHANGED NotKnowledge

\* log_audit, then return final_id, None; a send that raises lands in
\* upsert_knowledge's except.
Audit(t) ==
    /\ kTasks[t].pc = "audit"
    /\ LET channelId == Get(cache, "channel_audit_log", None)
       IN  IF channelId = None \/ channelId \notin LiveChannels
           THEN /\ audit' = audit
                /\ Finish(t, kTasks[t], kTasks[t].final_id, None)
           ELSE \/ /\ audit' = Append(audit,
                          [title |-> <<"Knowledge ", kTasks[t].action>>,
                           topic |-> kTasks[t].topic, user |-> kTasks[t].user])
                   /\ Finish(t, kTasks[t], kTasks[t].final_id, None)
                \/ /\ audit' = audit
                   /\ Finish(t, kTasks[t], NoDocId, SaveError)
    /\ UNCHANGED <<docs, nextId, provider>>
    /\ UNCHANGED NotKnowledge

KnowledgeNext ==
    \/ \E t \in 1..MaxTasks, sub \in Submissions, docId \in {NoDocId} \cup DOMAIN docs :
           UpsertCall(t, sub, docId)
    \/ \E t \in 1..MaxTasks : Save(t)
    \/ \E t \in 1..MaxTasks : Audit(t)

SpecKnowledge == KnowledgeInit /\ [][KnowledgeNext]_vars

\* C6: the UPDATE of an edit replaces the record's topic, content and
\* embedding and sets last_editor_id, and leaves votes, flags and every
\* metadata key that is not in the update as they were; no other record
\* changes.
C6_EditKeepsVotes ==
    [][\A t \in DOMAIN kTasks :
          (/\ kTasks[t].pc # "audit" /\ kTasks'[t].pc = "audit"
           /\ kTasks'[t].doc_id # NoDocId
           /\ kTasks'[t].doc_id \in DOMAIN docs)
          => LET c   == kTasks'[t]
                 old == docs[c.doc_id]
                 new == docs'[c.doc_id]
             IN  /\ new.topic = c.topic
                 /\ new.content = c.content
                 /\ new.embedding = provider'[EmbedText(c.topic, c.content)]
                 /\ "last_editor_id" \in DOMAIN new.metadata
                 /\ new.metadata.last_editor_id = c.user
                 /\ \A k \in (DOMAIN old.metadata \cup {"votes", "flags"})
                                \ {"is_spoiler", "last_editor_id"} :
                        /\ k \in DOMAIN new.metadata
                        /\ new.metadata[k] = old.metadata[k]
                 /\ DOMAIN docs' = DOMAIN docs
                 /\ \A d \in DOMAIN docs \ {c.doc_id} : docs'[d] = docs[d]
      ]_vars

\* User 2 has edited a record that user 1 taught as "Fishing": it now reads
\* "Farming", names user 2 as last editor, and still has author 1 and its
\* votes and flags.
C6_Witness ==
    \E t \in DOMAIN kTasks :
        /\ kTasks[t].pc = "audit" /\ kTasks[t].action = "Updated"
        /\ kTasks[t].doc_id \in DOMAIN docs
        /\ LET rec == docs[kTasks[t].doc_id]
           IN  /\ rec.topic = "Farming" /\ rec.content = "Plant seeds"
               /\ rec.metadata = [votes |-> 0, flags |-> 0, is_spoiler |-> FALSE,
                                  author_id |-> 1, last_editor_id |-> 2]

\* C7: the duplicate check is made for a new entry only.  A call that ends
\* with the duplicate warning is a new entry, and it created no record,
\* sent no audit entry and returned no id; a new entry is stored only after
\* a check that found no stored record above the threshold; an edit never
\* goes through the check and never ends with the warning.
C7_DuplicateBlocksInsertOnly ==
    /\ [][\A t \in DOMAIN kTasks :
            /\ (kTasks[t].pc # "done" /\ kTasks'[t].pc = "done"
                    /\ kTasks'[t].result.error = DupWarning)
                   => /\ kTasks'[t].doc_id = NoDocId
                      /\ kTasks'[t].result.id = NoDocId
                      /\ docs' = docs /\ nextId' = nextId /\ audit' = audit
            /\ (kTasks[t].pc = "idle" /\ kTasks'[t].pc = "save")
                   => \A d \in DOMAIN docs :
                          100 - CosineDistance100(docs[d].embedding,
                                    provider'[DupText(kTasks'[t].topic, kTasks'[t].content)])
                              <= 90
            /\ (kTasks[t].pc # "audit" /\ kTasks'[t].pc = "audit"
                    /\ kTasks'[t].action = "Added")
                   => kTasks[t].pc = "save"
          ]_vars
    /\ [](\A t \in DOMAIN kTasks :
            kTasks[t].doc_id # NoDocId
                => (kTasks[t].pc # "save" /\ kTasks[t].result.error # DupWarning))

\* A new entry was refused as a duplicate, and an edit whose text the check
\* would flag as well has been applied.
C7_Witness ==
    \E t, u \in DOMAIN kTasks :
        /\ kTasks[u].pc = "done" /\ kTasks[u].doc_id = NoDocId
        /\ kTasks[u].result.error = DupWarning
        /\ kTasks[t].pc = "audit" /\ kTasks[t].action = "Updated"
        /\ kTasks[t].doc_id \in DOMAIN docs
        /\ DupText(kTasks[t].topic, kTasks[t].content) \in DOMAIN provider
        /\ \E d \in DOMAIN docs :
               100 - CosineDistance100(docs[d].embedding,
                         provider[DupText(kTasks[t].topic, kTasks[t].content)]) > 90

\* C8: the duplicate check answers true for a new entry whose topic and
\* content are those of a stored record, so such an entry never passes the
\* check; and it never answers true on an empty store.
C8_IdenticalIsDuplicate ==
    [][\A t \in DOMAIN kTasks :
          /\ (kTasks[t].pc = "idle" /\ kTasks'[t].pc = "save")
                 => ~\E d \in DOMAIN docs :
                        /\ docs[d].topic = kTasks'[t].topic
                        /\ docs[d].content = kTasks'[t].content
          /\ (kTasks[t].pc = "idle" /\ kTasks'[t].pc = "done"
                  /\ kTasks'[t].result.error = DupWarning)
                 => DOMAIN docs # {}
      ]_vars

\* --------------------------------------------------------- Query.on_message

\* f"<@{self.bot.user.id}>" and f"<@!{self.bot.user.id}>"
Mention == "<@bot>"

NickMention == "<@!bot>"

\* The messages the gateway delivers.  The content is a sequence of words,
\* the white space between them left out, so that strip() has nothing to do.
Messages ==
    {[bot |-> TRUE, mentioned |-> TRUE, author |-> 1, roles |-> {7},
      content |-> <<Mention, "ip">>],
     [bot |-> FALSE, mentioned |-> FALSE, author |-> 1, roles |-> {7},
      content |-> <<"ip">>],
     [bot |-> FALSE, mentioned |-> TRUE, author |-> 1, roles |-> {7},
      content |-> <<Mention>>],
     [bot |-> FALSE, mentioned |-> TRUE, author |-> 1, roles |-> {7},
      content |-> <<Mention, "IP">>],
     [bot |-> FALSE, mentioned |-> TRUE, author |-> 2, roles |-> {9},
      content |-> <<NickMention, "how", "to", "fish">>]}

\* message.content.replace(f"<@{id}>", "").strip().replace(f"<@!{id}>", "").strip()
StripMentions(content) ==
    SelectSeq(SelectSeq(content, LAMBDA w : w # Mention), LAMBDA w : w # NickMention)

\* allowed_roles_raw.split(",")
RECURSIVE Split(_, _)
Split(s, sep) ==
    IF \A i \in DOMAIN s : s[i] # sep
    THEN <<s>>
    ELSE LET i == CHOOSE k \in DOMAIN s :
                      s[k] = sep /\ \A j \in 1..(k - 1) : s[j] # sep
         IN  <<SubSeq(s, 1, i - 1)>> \o Split(SubSeq(s, i + 1, Len(s)), sep)

\* [str(r.id) for r in message.author.roles]
UserRoleIds(roles) == {IntStr(r) : r \in roles}

\* any(rid in allowed_ids for rid in user_role_ids)
HasAllowedRole(raw, roles) ==
    LET allowed_ids == Split(raw, ",")
    IN  \E rid \in UserRoleIds(roles) :
            \E i \in DOMAIN allowed_ids : allowed_ids[i] = rid

\* The permission checks: the global toggle, then the role whitelist.
GatePasses_Open(c, msg) == TRUE

GatePasses(c, msg) ==
    /\ Get(c, "global_reply_enabled", <<"true">>) # <<"false">>
    /\ LET allowed_roles_raw == Get(c, "allowed_roles", << >>)
       IN  allowed_roles_raw # << >> => HasAllowedRole(allowed_roles_raw, msg.roles)

\* re.sub(r'\b' + re.escape(trigger) + r'\b', replacement, text, flags=re.IGNORECASE)
ApplyAlias(text, trigger, replacement) ==
    [i \in DOMAIN text |->
        IF Lower(text[i]) = Lower(trigger) THEN replacement ELSE text[i]]

\* replace_aliases: the rows of SELECT trigger, replacement FROM aliases are
\* applied one after the other, in whatever order the database returns them.
RECURSIVE AliasOutcomes(_, _)
AliasOutcomes(rows, text) ==
    IF DOMAIN rows = {}
    THEN {text}
    ELSE UNION {AliasOutcomes([u \in DOMAIN rows \ {t} |-> rows[u]],
                              ApplyAlias(text, t, rows[t])) : t \in DOMAIN rows}

DigitVal(ch) == CHOOSE n \in 0..9 : Digits[n + 1] = ch

\* float(threshold_str) of a str d.d or d.dd, in hundredths
Float100(s) ==
    DigitVal(s[1]) * 100
        + (IF Len(s) >= 3 THEN DigitVal(s[3]) * 10 ELSE 0)
        + (IF Len(s) >= 4 THEN DigitVal(s[4]) ELSE 0)

\* The language model's translation: the text itself, or another wording.
Translations(text) == {text, <<"how", "to", "fish">>}

\* if not results:
GapDue_Always(results) == TRUE

GapDue(results) == results = << >>

\* gaps_channel_id = ConfigManager.get("channel_knowledge_gaps"), and the
\* channel bot.get_channel finds for it: None if the key is not set, is
\* empty, or names no channel the bot can see.
GapChannel(c) ==
    LET gaps_channel_id == Get(c, "channel_knowledge_gaps", None)
    IN  IF gaps_channel_id = None \/ gaps_channel_id = << >>
        THEN None
        ELSE IF gaps_channel_id \in LiveChannels THEN gaps_channel_id ELSE None

\* The footer of the answer: the confidence tier of the first result.
ConfidenceText(results) ==
    IF results = << >> THEN "General Knowledge"
    ELSE IF results[1].similarity >= 45 THEN "High Confidence"
    ELSE IF results[1].similarity >= 30 THEN "Medium Confidence"
    ELSE "Low Confidence"

\* VoteView(doc_id) of the first result, if there is one
ReplyView(results) == IF results = << >> THEN NoDocId ELSE results[1].id

\* VoteView.__init__ and its two buttons
VoteView(docId) ==
    [doc_id |-> docId,
     helpful |-> [label |-> "Helpful", disabled |-> FALSE],
     wrong |-> [label |-> "Wrong", disabled |-> FALSE]]

\* TeachGapView(query_text, knowledge_cog): the Teach This button
TeachGapView(missing_query) ==
    [kind |-> "teach", missing_query |-> missing_query, doc_id |-> NoDocId]

\* EditGapView(doc_id, knowledge_cog): the Edit button
EditGapView(docId) == [kind |-> "edit", missing_query |-> << >>, doc_id |-> docId]

\* view = None: a reply without buttons
NoView ==
    [doc_id |-> NoDocId,
     helpful |-> [label |-> "", disabled |-> TRUE],
     wrong |-> [label |-> "", disabled |-> TRUE]]

\* VoteView.helpful and VoteView.wrong on the view object
Pressed(view, button) ==
    IF button = "helpful"
    THEN [view EXCEPT !.helpful = [label |-> "Voted", disabled |-> TRUE],
                      !.wrong.disabled = TRUE]
    ELSE [view EXCEPT !.wrong = [label |-> "Flagged", disabled |-> TRUE],
                      !.helpful.disabled = TRUE]

\* What a press does to pinya_docs: the UPDATE of the votes is commented
\* out, the handlers only edit the message.
AfterVote_Counted(store, docId, button) ==
    [d \in DOMAIN store |->
        IF d = docId
        THEN [store[d] EXCEPT !.metadata.votes =
                                  IF button = "helpful" THEN @ + 1 ELSE @,
                              !.metadata.flags =
                                  IF button = "wrong" THEN @ + 1 ELSE @]
        ELSE store[d]]

AfterVote(store, docId, button) == store

MIdle == [pc |-> "idle", author |-> 0, roles |-> {}, content |-> << >>,
          query_text |-> << >>, threshold |-> 0, english |-> << >>,
          results |-> << >>, searched |-> FALSE, hits |-> 0, trace |-> << >>,
          failed |-> "", reply |-> None, view |-> NoView]

\* The one taught record of the stores below.
TaughtRecord ==
    [topic |-> "Fishing", content |-> "Use a rod", embedding |-> <<1, 0>>,
     metadata |-> InsertMetadata(FALSE, 1)]

\* What an earlier run may have left in pinya_docs and in the config table:
\* no record or one; no gaps channel, one the bot can see, or one it cannot;
\* replies switched off; a role whitelist, filled or emptied again; a
\* threshold of 0.6.
QueryWorlds ==
    {[docs |-> << >>, config |-> << >>],
     [docs |-> << >>, config |-> [channel_knowledge_gaps |-> <<"1", "1">>]],
     [docs |-> <<TaughtRecord>>,
      config |-> [channel_knowledge_gaps |-> <<"2", "2">>,
                  ai_threshold |-> <<"0", ".", "6">>]],
     [docs |-> <<TaughtRecord>>,
      config |-> [channel_knowledge_gaps |-> <<"1", "1">>,
                  global_reply_enabled |-> <<"false">>]],
     [docs |-> <<TaughtRecord>>,
      config |-> [channel_knowledge_gaps |-> <<"1", "1">>,
                  allowed_roles |-> <<"8", ",", "7">>,
                  global_reply_enabled |-> <<"true">>,
                  ai_threshold |-> <<"0", ".", "6">>]],
     [docs |-> <<TaughtRecord>>,
      config |-> [channel_knowledge_gaps |-> <<"1", "1">>,
                  allowed_roles |-> << >>,
                  ai_threshold |-> <<"0", ".", "6">>]]}

QueryAliases == [t \in {"ip"} |-> "address"]

QueryInit ==
    /\ \E w \in QueryWorlds : docs = w.docs /\ config = w.config
    /\ nextId = Len(docs) + 1
    /\ provider = << >>
    /\ aliases = QueryAliases
    /\ cache = config
    /\ booted = TRUE
    /\ cfgTasks = << >> /\ committed = {} /\ reads = << >>
    /\ searches = << >>
    /\ NoKnowledgeTasks
    /\ msgs = [m \in 1..MaxMsgs |-> MIdle]
    /\ gaps = << >>
    /\ NoAvatar

NotQuery == <<docs, nextId, aliases, config, cache, searches, booted, cfgTasks,
              committed, reads, kTasks, audit,
        avatarVars>>

\* The handler of message m ends on an exception raised by the named step;
\* discord.py logs it.  Of a frame that has ended, the locals are dropped;
\* hits keeps len(results).
Raise(m, step, trace) ==
    msgs' = [msgs EXCEPT ![m] =
                [@ EXCEPT !.pc = "failed", !.failed = step, !.trace = trace,
                          !.content = << >>, !.query_text = << >>,
                          !.english = << >>, !.threshold = 0, !.results = << >>]]

\* on_message is entered for message msg and runs to its first real await:
\* ConfigManager.get never suspends, so the early returns and the permission
\* checks are one turn of the event loop.  Messages take the slots in order.
OnMessage(m, msg) ==
    /\ msgs[m].pc = "idle"
    /\ \A u \in 1..(m - 1) : msgs[u].pc # "idle"
    /\ LET content == StripMentions(msg.content)
       IN  IF msg.bot \/ ~msg.mentioned \/ content = << >>
           THEN msgs' = [msgs EXCEPT ![m] = [MIdle EXCEPT !.pc = "ignored"]]
           ELSE IF ~GatePasses(cache, msg)
           THEN msgs' = [msgs EXCEPT ![m] =
                    [MIdle EXCEPT !.pc = "denied", !.author = msg.author,
                                  !.roles = msg.roles, !.trace = <<"gate">>]]
           ELSE msgs' = [msgs EXCEPT ![m] =
                    [MIdle EXCEPT !.pc = "alias", !.author = msg.author,
                                  !.roles = msg.roles, !.content = content,
                                  !.trace = <<"gate">>]]
    /\ UNCHANGED <<provider, gaps>>
    /\ UNCHANGED NotQuery

\* async with message.channel.typing(), query_text = await
\* self.replace_aliases(content), then the threshold from the cache.  A
\* failure of either await ends the handler.
ReplaceAliases(m) ==
    /\ msgs[m].pc = "alias"
    /\ \/ \E query_text \in AliasOutcomes(aliases, msgs[m].content) :
            msgs' = [msgs EXCEPT ![m] =
                [@ EXCEPT !.pc = "translate", !.content = << >>,
                          !.query_text = query_text,
                          !.threshold = Float100(Get(cache, "ai_threshold",
                                                     <<"0", ".", "5">>)),
                          !.trace = Append(@, "alias")]]
       \/ Raise(m, "alias", Append(msgs[m].trace, "alias"))
    /\ UNCHANGED <<provider, gaps>>
    /\ UNCHANGED NotQuery

\* english_query = await AI.translate_to_english(query_text)
Translate_Fallback(m) ==
    /\ msgs[m].pc = "translate"
    /\ \/ \E english \in Translations(msgs[m].query_text) :
            msgs' = [msgs EXCEPT ![m] =
                [@ EXCEPT !.pc = "search", !.english = english,
                          !.trace = Append(@, "translate")]]
       \/ msgs' = [msgs EXCEPT ![m] =
               [@ EXCEPT !.pc = "search", !.english = msgs[m].query_text,
                         !.failed = "translate", !.trace = Append(@, "translate")]]
    /\ UNCHANGED <<provider, gaps>>
    /\ UNCHANGED NotQuery

Translate(m) ==
    /\ msgs[m].pc = "translate"
    /\ \/ \E english \in Translations(msgs[m].query_text) :
            msgs' = [msgs EXCEPT ![m] =
                [@ EXCEPT !.pc = "search", !.english = english,
                          !.trace = Append(@, "translate")]]
       \/ Raise(m, "translate", Append(msgs[m].trace, "translate"))
    /\ UNCHANGED <<provider, gaps>>
    /\ UNCHANGED NotQuery

\* results = await AI.search_knowledge_base(english_query, threshold), and
\* on its return the choice between the gap report and the answer.
Search(m) ==
    /\ msgs[m].pc = "search"
    /\ \/ \E vec \in EmbedChoices(provider, msgs[m].english) :
            \E rows \in SearchRows(docs, vec, msgs[m].threshold) :
                /\ provider' = Remember(provider, msgs[m].english, vec)
                /\ msgs' = [msgs EXCEPT ![m] =
                       [@ EXCEPT !.pc = IF GapDue(rows) /\ GapChannel(cache) # None
                                        THEN "gap" ELSE "generate",
                                 !.english = << >>, !.threshold = 0,
                                 !.results = rows, !.searched = TRUE,
                                 !.hits = Len(rows),
                                 !.trace = Append(@, "search")]]
       \/ /\ Raise(m, "search", Append(msgs[m].trace, "search"))
          /\ provider' = provider
    /\ UNCHANGED gaps
    /\ UNCHANGED NotQuery

\* await channel.send(embed=embed, view=view) to the knowledge-gaps channel
SendGap(m) ==
    /\ msgs[m].pc = "gap"
    /\ \/ /\ gaps' = Append(gaps, [title |-> "Knowledge Gap Detected",
                                   query |-> msgs[m].query_text,
                                   user |-> msgs[m].author, msg |-> m,
                                   footer |-> "",
                                   view |-> TeachGapView(msgs[m].query_text)])
          /\ msgs' = [msgs EXCEPT ![m] =
                 [@ EXCEPT !.pc = "generate", !.trace = Append(@, "gap")]]
       \/ /\ Raise(m, "gap", Append(msgs[m].trace, "gap"))
          /\ gaps' = gaps
    /\ UNCHANGED provider
    /\ UNCHANGED NotQuery

\* answer = await AI.generate_answer(query_text, results)
Generate(m) ==
    /\ msgs[m].pc = "generate"
    /\ \/ msgs' = [msgs EXCEPT ![m] =
              [@ EXCEPT !.pc = "reply", !.trace = Append(@, "generate")]]
       \/ Raise(m, "generate", Append(msgs[m].trace, "generate"))
    /\ UNCHANGED <<provider, gaps>>
    /\ UNCHANGED NotQuery

\* await message.reply(embed=embed, view=view, mention_author=False); the
\* lookup of the contributor before it swallows its own failures.
Reply(m) ==
    /\ msgs[m].pc = "reply"
    /\ \/ msgs' = [msgs EXCEPT ![m] =
              [@ EXCEPT !.pc = "done", !.trace = Append(@, "reply"),
                        !.query_text = << >>, !.results = << >>,
                        !.reply = <<ConfidenceText(msgs[m].results),
                                   ReplyView(msgs[m].results)>>,
                        !.view = IF msgs[m].results = << >> THEN NoView
                                 ELSE VoteView(ReplyView(msgs[m].results))]]
       \/ Raise(m, "reply", Append(msgs[m].trace, "reply"))
    /\ UNCHANGED <<provider, gaps>>
    /\ UNCHANGED NotQuery

\* A press of Helpful or Wrong under the answer to message m: the button
\* states change on the view, then interaction.response.edit_message(view).
\* Discord delivers no press of a button it shows as disabled.
Vote(m, button) ==
    /\ msgs[m].pc = "done"
    /\ msgs[m].view # NoView
    /\ ~msgs[m].view[button].disabled
    /\ msgs' = [msgs EXCEPT ![m].view = Pressed(@, button)]
    /\ docs' = AfterVote(docs, msgs[m].view.doc_id, button)
    /\ UNCHANGED <<provider, gaps>>
    /\ UNCHANGED <<nextId, aliases, config, cache, searches, booted, cfgTasks,
                   committed, reads, kTasks, audit, avatarVars>>

QueryNext ==
    \/ \E m \in 1..MaxMsgs, msg \in Messages : OnMessage(m, msg)
    \/ \E m \in 1..MaxMsgs, button \in {"helpful", "wrong"} : Vote(m, button)
    \/ \E m \in 1..MaxMsgs : ReplaceAliases(m)
    \/ \E m \in 1..MaxMsgs : Translate(m)
    \/ \E m \in 1..MaxMsgs : Search(m)
    \/ \E m \in 1..MaxMsgs : SendGap(m)
    \/ \E m \in 1..MaxMsgs : Generate(m)
    \/ \E m \in 1..MaxMsgs : Reply(m)

SpecQuery == QueryInit /\ [][QueryNext]_vars

\* The notifications sent for message m.
GapCount(m) == Cardinality({i \in DOMAIN gaps : gaps[i].msg = m})

\* C2, as stated: for a query that passed the gate and whose search
\* returned, one gap notification is sent if the results are empty and none
\* if they are not.
C2_GapIffEmpty ==
    \A m \in DOMAIN msgs :
        (msgs[m].searched /\ msgs[m].pc \in {"generate", "reply", "done"})
            => GapCount(m) = (IF msgs[m].hits = 0 THEN 1 ELSE 0)

\* C2, amended: no notification is sent for a query whose results are not
\* empty, and never more than one for a message; a query with empty results
\* that goes on to the answer has sent one exactly when the key
\* channel_knowledge_gaps is set to a channel the bot can see, and none
\* otherwise.
C2_GapIffEmptyAndChannel ==
    \A m \in DOMAIN msgs :
        /\ GapCount(m) <= 1
        /\ GapCount(m) = 1 => (msgs[m].searched /\ msgs[m].hits = 0)
        /\ (msgs[m].searched /\ msgs[m].pc \in {"generate", "reply", "done"})
              => GapCount(m) =
                    (IF /\ msgs[m].hits = 0
                        /\ "channel_knowledge_gaps" \in DOMAIN cache
                        /\ cache["channel_knowledge_gaps"] \in LiveChannels
                     THEN 1 ELSE 0)

\* One query found nothing and its notification is out, and another, on
\* the same store and with the same channel, found records and sent none.
C2_Witness ==
    \E m, u \in DOMAIN msgs :
        /\ msgs[m].pc = "done" /\ msgs[m].hits = 0 /\ GapCount(m) = 1
        /\ msgs[u].pc = "done" /\ msgs[u].hits > 0 /\ GapCount(u) = 0

Contains(s, x) == \E i \in DOMAIN s : s[i] = x

IsPrefix(s, t) == Len(s) <= Len(t) /\ \A i \in DOMAIN s : s[i] = t[i]

\* global_reply_enabled is "false", or allowed_roles is not empty and lists
\* none of the roles (one-digit ids).
GateFails(c, roles) ==
    \/ ("global_reply_enabled" \in DOMAIN c /\ c["global_reply_enabled"] = <<"false">>)
    \/ /\ "allowed_roles" \in DOMAIN c
       /\ c["allowed_roles"] # << >>
       /\ \A r \in roles :
              \A i \in DOMAIN c["allowed_roles"] : <<c["allowed_roles"][i]>> # IntStr(r)

\* C9: the steps taken for a mention are, in this order, the gate, the
\* alias substitution, the translation, the search, the gap report, the
\* answer and the reply, the gap report only after a search that found
\* nothing; a message that fails the gate takes no step after it and sends
\* no notification.
C9_PipelineOrder ==
    \A m \in DOMAIN msgs :
        /\ \/ IsPrefix(msgs[m].trace, <<"gate", "alias", "translate", "search",
                                        "gap", "generate", "reply">>)
           \/ IsPrefix(msgs[m].trace, <<"gate", "alias", "translate", "search",
                                        "generate", "reply">>)
        /\ Contains(msgs[m].trace, "gap")
              => (msgs[m].searched /\ msgs[m].hits = 0)
        /\ (msgs[m].trace # << >> /\ GateFails(cache, msgs[m].roles))
              => /\ msgs[m].trace = <<"gate">>
                 /\ msgs[m].pc = "denied"
                 /\ GapCount(m) = 0
                 /\ msgs[m].reply = None

\* Under a whitelist, a member's query has gone through all seven steps and
\* a message of an author without a listed role stopped at the gate.
C9_Witness ==
    \E m, u \in DOMAIN msgs :
        /\ msgs[m].pc = "done"
        /\ msgs[m].trace = <<"gate", "alias", "translate", "search", "gap",
                             "generate", "reply">>
        /\ msgs[u].pc = "denied" /\ msgs[u].trace = <<"gate">>
        /\ Get(cache, "global_reply_enabled", <<"true">>) # <<"false">>

\* ------------------------------------- Admin.config_threshold and the query

\* The values an admin may type, in hundredths: 0.05, 0.2, 1.0 and 1.5.
ThresholdValues == {5, 20, 100, 150}

\* str(value) of a float below 10 with at most two decimals: "0.2", "1.0", "0.05"
FloatStr(v) ==
    <<Digits[(v \div 100) + 1], ".", Digits[((v % 100) \div 10) + 1]>>
        \o (IF v % 10 = 0 THEN << >> ELSE <<Digits[(v % 10) + 1]>>)

\* if not 0.1 <= value <= 1.0:
InRange_Any(v) == TRUE

InRange(v) == 10 <= v /\ v <= 100

\* A store in which two records are equally far from some queries, so that
\* they tie for the third place.
ThresholdStores ==
    {[i \in 1..4 |->
        [topic |-> "Fishing", content |-> "Use a rod",
         embedding |-> <<<<1, 0>>, <<4, 3>>, <<3, 4>>, <<3, 4>>>>[i],
         metadata |-> InsertMetadata(FALSE, 1)]]}

ThresholdInit ==
    /\ docs \in ThresholdStores
    /\ nextId = Len(docs) + 1
    /\ provider = << >>
    /\ config \in InitialConfigs
    /\ cache = config
    /\ booted = TRUE
    /\ cfgTasks = [t \in 1..MaxCfgTasks |-> CfgIdle]
    /\ committed = {<<k, config[k]>> : k \in DOMAIN config}
    /\ reads = << >>
    /\ searches = << >>
    /\ NoKnowledgeTasks /\ NoMessages
    /\ NoAvatar

\* /admin config threshold value: a value out of range is answered with the
\* error and nothing else happens; one in range goes to
\* ConfigManager.set("ai_threshold", str(value)).
ConfigThreshold(t, value) ==
    /\ \A u \in 1..(t - 1) : cfgTasks[u].pc # "idle"
    /\ IF ~InRange(value)
       THEN /\ cfgTasks[t].pc = "idle"
            /\ cfgTasks' = [cfgTasks EXCEPT ![t] =
                   [CfgIdle EXCEPT !.op = "threshold", !.pc = "rejected"]]
            /\ UNCHANGED <<config, cache, booted, committed, reads>>
            /\ UNCHANGED NotConfig
       ELSE \E ok \in BOOLEAN :
                SetExecute(t, "ai_threshold", [py |-> "str", v |-> FloatStr(value)], ok)

\* The query of a mention from its threshold on: threshold_str from the
\* cache, float(threshold_str), and the search of the translated text.  A
\* search that raises leaves nothing behind.
Ask(text) ==
    /\ Len(searches) < MaxAsks
    /\ LET threshold == Float100(Get(cache, "ai_threshold", <<"0", ".", "5">>))
       IN  \/ \E vec \in EmbedChoices(provider, text) :
                 \E rows \in SearchRows(docs, vec, threshold) :
                     /\ provider' = Remember(provider, text, vec)
                     /\ searches' = Append(searches,
                            [text |-> text, threshold |-> threshold, vec |-> vec,
                             raised |-> FALSE, rows |-> rows])
           \/ UNCHANGED <<provider, searches>>
    /\ UNCHANGED <<docs, nextId, aliases, config, cache, booted, cfgTasks,
                   committed, reads, kTasks, audit, msgs, gaps, avatarVars>>

ThresholdNext ==
    \/ \E t \in 1..MaxCfgTasks, value \in ThresholdValues : ConfigThreshold(t, value)
    \/ \E t \in 1..MaxCfgTasks : SetResume(t)
    \/ Ask(<<"ip">>)

SpecThreshold == ThresholdInit /\ [][ThresholdNext]_vars

\* The ids of the records a search returned.
RowIds(rows) == {rows[k].id : k \in DOMAIN rows}

\* C11: of two searches of the same text on the same store, the later one
\* made at a lower threshold, the later returns every record the earlier
\* one returned.
C11_LowerThresholdSuperset ==
    \A i, j \in DOMAIN searches :
        (/\ i < j
         /\ searches[i].text = searches[j].text
         /\ searches[j].threshold < searches[i].threshold)
            => RowIds(searches[i].rows) \subseteq RowIds(searches[j].rows)

\* C14: a threshold command with a value outside [0.1, 1.0] changes neither
\* the config table nor the cache, and the ai_threshold of the table and of
\* the cache is always a value within [0.1, 1.0].
C14_ThresholdValidated ==
    /\ [][\A t \in DOMAIN cfgTasks :
            (cfgTasks[t].pc # "rejected" /\ cfgTasks'[t].pc = "rejected")
                => (config' = config /\ cache' = cache /\ committed' = committed)
         ]_vars
    /\ [](/\ "ai_threshold" \in DOMAIN config
              => Float100(config["ai_threshold"]) \in 10..100
          /\ "ai_threshold" \in DOMAIN cache
              => Float100(cache["ai_threshold"]) \in 10..100)

\* A command with 1.5 was rejected and one with 1.0 was stored: the table
\* and the cache hold "1.0".
C14_Witness ==
    /\ \E t, u \in DOMAIN cfgTasks :
           /\ cfgTasks[t].pc = "rejected"
           /\ cfgTasks[u].pc = "returned" /\ cfgTasks[u].got = <<"1", ".", "0">>
    /\ "ai_threshold" \in DOMAIN config /\ config["ai_threshold"] = <<"1", ".", "0">>

\* C12: a search on a given store with a given query embedding has one
\* possible result, in which records of equal similarity stand in the order
\* of their insertion (ascending id), also across the limit: a record left
\* out that ties with the last one returned was inserted after it.
C12_StableTieBreak ==
    \A c \in DOMAIN searches :
        LET call == searches[c]
            rows == call.rows
        IN  ~call.raised =>
              /\ Cardinality(SearchRows(docs, call.vec, call.threshold)) = 1
              /\ \A k \in DOMAIN rows :
                    (k < Len(rows) /\ rows[k].similarity = rows[k + 1].similarity)
                        => rows[k].id < rows[k + 1].id
              /\ \A d \in DOMAIN docs :
                    (/\ rows # << >>
                     /\ d \notin RowIds(rows)
                     /\ Similarity(docs[d].embedding, call.vec)
                            = rows[Len(rows)].similarity)
                        => d > rows[Len(rows)].id

\* C16: whatever fails during a mention query, the author still gets a
\* reply: no handler that passed the gate ends without one.
C16_AlwaysAnswered ==
    \A m \in DOMAIN msgs :
        msgs[m].pc \in {"done", "failed"} => msgs[m].reply # None

\* C18: a query whose translation failed has ended there: no search was
\* run for it, no gap notification sent, no answer generated and no reply
\* sent.
C18_TranslateFailureEndsQuery ==
    \A m \in DOMAIN msgs :
        msgs[m].failed = "translate"
            => /\ msgs[m].pc = "failed"
               /\ msgs[m].trace = <<"gate", "alias", "translate">>
               /\ ~msgs[m].searched
               /\ GapCount(m) = 0
               /\ msgs[m].reply = None

\* The translation of one query failed while another query, with the same
\* store and config, was answered.
C18_Witness ==
    \E m, u \in DOMAIN msgs :
        /\ msgs[m].failed = "translate" /\ msgs[m].pc = "failed"
        /\ msgs[u].pc = "done" /\ msgs[u].searched

\* C19: a press of Helpful or Wrong leaves both buttons of its view
\* disabled and changes no record; every record's votes and flags are the 0
\* they were inserted with.
C19_VotesNeverPersist ==
    /\ [][\A m \in DOMAIN msgs :
            (msgs[m].view # NoView /\ msgs'[m].view # msgs[m].view)
                => /\ msgs'[m].view.helpful.disabled
                   /\ msgs'[m].view.wrong.disabled
                   /\ msgs'[m].view.doc_id = msgs[m].view.doc_id
                   /\ docs' = docs
         ]_vars
    /\ [](\A d \in DOMAIN docs :
              docs[d].metadata.votes = 0 /\ docs[d].metadata.flags = 0)

\* Helpful was pressed under one answer and Wrong under another, both for
\* record 1, which still has no vote and no flag.
C19_Witness ==
    \E m, u \in DOMAIN msgs :
        /\ msgs[m].view.helpful.label = "Voted"
        /\ msgs[m].view.wrong.disabled /\ msgs[m].view.doc_id \in DOMAIN docs
        /\ msgs[u].view.wrong.label = "Flagged"
        /\ msgs[u].view.doc_id \in DOMAIN docs
        /\ docs[msgs[m].view.doc_id].metadata.votes = 0
        /\ docs[msgs[u].view.doc_id].metadata.flags = 0

\* C20: at the moment a new entry is inserted, the duplicate check of its
\* text would still find nothing among the records that stand as they were
\* inserted (edits of stored records set aside): none of them is more than
\* 0.9 similar to it.
C20_CheckThenInsertAtomic ==
    [][\A t \in DOMAIN kTasks :
          (/\ kTasks[t].pc # "audit" /\ kTasks'[t].pc = "audit"
           /\ kTasks'[t].action = "Added")
          => \A d \in DOMAIN docs :
                 "last_editor_id" \notin DOMAIN docs[d].metadata =>
                 Similarity(docs[d].embedding,
                            provider'[DupText(kTasks'[t].topic, kTasks'[t].content)])
                     <= DupThreshold
      ]_vars

\* ------------------------- /forget, /alias and the Teach This button of a gap

\* f"Topic `{topic}` not found."
NotFound(topic) == <<"Topic ", topic, " not found.">>

\* f"Error setting alias: {e}"
AliasError == <<"Error setting alias: ", "e">>

\* exists = await Database.fetchval("SELECT id FROM pinya_docs WHERE topic = $1")
Exists_Always(store, topic) == TRUE

Exists(store, topic) == \E d \in DOMAIN store : store[d].topic = topic

\* DELETE FROM pinya_docs WHERE topic = $1
DeleteTopic(store, topic) ==
    [d \in {x \in DOMAIN store : store[x].topic # topic} |-> store[d]]

\* INSERT INTO aliases ... ON CONFLICT (trigger) DO UPDATE SET replacement = $2
AliasUpsert(table, trigger, replacement) ==
    [x \in DOMAIN table \cup {trigger} |->
        IF x = trigger THEN replacement ELSE table[x]]

\* The channel log_audit sends to: None if channel_audit_log is not set or
\* names no channel the bot can see.
AuditChannel(c) ==
    LET channel_id == Get(c, "channel_audit_log", None)
    IN  IF channel_id = None \/ channel_id \notin LiveChannels THEN None ELSE channel_id

\* The handler of task t, with frame c, ends on an exception it does not
\* catch.
Fail(t, c) ==
    kTasks' = [kTasks EXCEPT ![t] =
                  [KIdle EXCEPT !.pc = "failed", !.doc_id = c.doc_id,
                                !.origin = c.origin]]

\* What the curators type.
ForgetTopics == {"Fishing", "Mining"}

CurateSubmissions ==
    {[topic |-> "Farming", content |-> "Plant seeds", spoiler |-> "no", user |-> 2]}

\* The notification Query.on_message left in the gaps channel.
OpenGap ==
    [title |-> "Knowledge Gap Detected", query |-> <<"farming">>, user |-> 1,
     msg |-> 1, footer |-> "", view |-> TeachGapView(<<"farming">>)]

CurateInit ==
    /\ docs = <<TaughtRecord>>
    /\ nextId = Len(docs) + 1
    /\ provider = [x \in {EmbedText("Fishing", "Use a rod")} |-> <<1, 0>>]
    /\ config \in KnowledgeConfigs
    /\ cache = config
    /\ booted = TRUE
    /\ cfgTasks = << >> /\ committed = {} /\ reads = << >>
    /\ kTasks = [t \in 1..MaxTasks |-> KIdle]
    /\ audit = << >>
    /\ searches = << >>
    /\ msgs = << >>
    /\ aliases = << >>
    /\ gaps = <<OpenGap>>
    /\ NoAvatar

NotCurate == <<config, cache, searches, booted, cfgTasks, committed, reads, msgs,
        avatarVars>>

\* /forget topic, up to the answer of its SELECT: no such topic is answered
\* with the not-found reply and the command is over.
ForgetCall(t, topic) ==
    /\ kTasks[t].pc = "idle"
    /\ \A u \in 1..(t - 1) : kTasks[u].pc # "idle"
    /\ LET c == [KIdle EXCEPT !.topic = topic, !.action = "Deleted", !.user = 1]
       IN  \/ Fail(t, c)
           \/ IF Exists(docs, topic)
              THEN kTasks' = [kTasks EXCEPT ![t] = [c EXCEPT !.pc = "f_delete"]]
              ELSE Finish(t, c, NoDocId, NotFound(topic))
    /\ UNCHANGED <<docs, nextId, provider, audit, aliases, gaps>>
    /\ UNCHANGED NotCurate

\* The DELETE and the reply after it; a reply that raises skips the audit.
ForgetDelete(t) ==
    /\ kTasks[t].pc = "f_delete"
    /\ \/ /\ docs' = DeleteTopic(docs, kTasks[t].topic)
          /\ \/ kTasks' = [kTasks EXCEPT ![t].pc = "f_audit"]
             \/ Fail(t, kTasks[t])
       \/ /\ docs' = docs
          /\ Fail(t, kTasks[t])
    /\ UNCHANGED <<nextId, provider, audit, aliases, gaps>>
    /\ UNCHANGED NotCurate

\* log_audit("Knowledge Deleted", ...), the last statement of forget
ForgetAudit(t) ==
    /\ kTasks[t].pc = "f_audit"
    /\ IF AuditChannel(cache) = None
       THEN /\ audit' = audit
            /\ Finish(t, kTasks[t], NoDocId, None)
       ELSE \/ /\ audit' = Append(audit,
                      [title |-> <<"Knowledge ", kTasks[t].action>>,
                       topic |-> kTasks[t].topic, user |-> kTasks[t].user])
               /\ Finish(t, kTasks[t], NoDocId, None)
            \/ /\ audit' = audit
               /\ Fail(t, kTasks[t])
    /\ UNCHANGED <<docs, nextId, provider, aliases, gaps>>
    /\ UNCHANGED NotCurate

\* /alias trigger replacement, up to log_audit: the defer, then inside the
\* try the upsert and the reply; an exception there is answered by the
\* except with the error text.
AliasCall(t, trigger, replacement) ==
    /\ kTasks[t].pc = "idle"
    /\ \A u \in 1..(t - 1) : kTasks[u].pc # "idle"
    /\ LET c == [KIdle EXCEPT !.topic = trigger, !.content = replacement,
                              !.action = "Alias", !.user = 1]
       IN  \/ /\ Fail(t, c)
              /\ aliases' = aliases
           \/ /\ Finish(t, c, NoDocId, AliasError)
              /\ aliases' = aliases
           \/ /\ aliases' = AliasUpsert(aliases, trigger, replacement)
              /\ \/ kTasks' = [kTasks EXCEPT ![t] = [c EXCEPT !.pc = "a_audit"]]
                 \/ Finish(t, c, NoDocId, AliasError)
    /\ UNCHANGED <<docs, nextId, provider, audit, gaps>>
    /\ UNCHANGED NotCurate

\* log_audit("Alias Updated", ...), inside the try of alias
AliasAudit(t) ==
    /\ kTasks[t].pc = "a_audit"
    /\ IF AuditChannel(cache) = None
       THEN /\ audit' = audit
            /\ Finish(t, kTasks[t], NoDocId, None)
       ELSE \/ /\ audit' = Append(audit,
                      [title |-> <<"Alias Updated">>,
                       topic |-> kTasks[t].topic, user |-> kTasks[t].user])
               /\ Finish(t, kTasks[t], NoDocId, None)
            \/ /\ audit' = audit
               /\ Finish(t, kTasks[t], NoDocId, AliasError)
    /\ UNCHANGED <<docs, nextId, provider, aliases, gaps>>
    /\ UNCHANGED NotCurate

\* The modal of Teach This on notification g is submitted: callback calls
\* upsert_knowledge(topic, content, spoiler, user=inter.user), which runs to
\* the result of its first awaited call.
GapTeach(t, g, sub) ==
    /\ kTasks[t].pc = "idle"
    /\ \A u \in 1..(t - 1) : kTasks[u].pc # "idle"
    /\ LET c == [KIdle EXCEPT !.topic = sub.topic, !.content = sub.content,
                              !.spoiler = sub.spoiler, !.user = sub.user,
                              !.origin = g]
       IN  IF NeedsDupCheck(NoDocId, c.check_dup)
           THEN DupCheckOf(t, c)
           ELSE SaveOf(t, c)

\* The rest of callback, once upsert_knowledge has returned: an error is
\* passed on to the user; otherwise the origin message gets the resolved
\* title, the footer and an EditGapView for the returned id, and the user
\* the "Saved." line.  An edit that raises ends the callback.
GapResolve(t) ==
    /\ kTasks[t].pc = "done" /\ kTasks[t].origin # 0
    /\ IF kTasks[t].result.error # None
       THEN /\ kTasks' = [kTasks EXCEPT ![t].pc = "acked"]
            /\ gaps' = gaps
       ELSE \/ /\ gaps' = [gaps EXCEPT ![kTasks[t].origin] =
                      [@ EXCEPT !.title = "Knowledge Gap Resolved",
                                !.footer = "Taught by",
                                !.view = EditGapView(kTasks[t].result.id)]]
               /\ kTasks' = [kTasks EXCEPT ![t].pc = "acked"]
            \/ /\ gaps' = gaps
               /\ Fail(t, kTasks[t])
    /\ UNCHANGED <<docs, nextId, provider, audit, aliases>>
    /\ UNCHANGED NotCurate

CurateNext ==
    \/ \E t \in 1..MaxTasks, g \in DOMAIN gaps, sub \in CurateSubmissions :
           GapTeach(t, g, sub)
    \/ \E t \in 1..MaxTasks, sub \in CurateSubmissions, docId \in DOMAIN docs :
           UpsertCall(t, sub, docId)
    \/ \E t \in 1..MaxTasks : Save(t)
    \/ \E t \in 1..MaxTasks : Audit(t)
    \/ \E t \in 1..MaxTasks : GapResolve(t)
    \/ \E t \in 1..MaxTasks, topic \in ForgetTopics : ForgetCall(t, topic)
    \/ \E t \in 1..MaxTasks : ForgetDelete(t)
    \/ \E t \in 1..MaxTasks : ForgetAudit(t)
    \/ \E t \in 1..MaxTasks : AliasCall(t, "ip", "address")
    \/ \E t \in 1..MaxTasks : AliasAudit(t)

SpecCurate == CurateInit /\ [][CurateNext]_vars

\* C13: when the callback of Teach This ends after its upsert_knowledge
\* stored a new record, the notification it came from has the resolved
\* title and an edit button for that record, and no notification was added;
\* when it ends without a stored record, the notification is as it was.
C13_GapResolvedOnSave ==
    [][\A t \in DOMAIN kTasks :
          (kTasks[t].pc = "done" /\ kTasks'[t].pc = "acked")
              => LET g == kTasks[t].origin
                 IN  IF kTasks[t].final_id # NoDocId
                     THEN /\ Len(gaps') = Len(gaps)
                          /\ gaps'[g].title = "Knowledge Gap Resolved"
                          /\ gaps'[g].view = EditGapView(kTasks[t].final_id)
                     ELSE gaps' = gaps
      ]_vars

\* C15: a /forget of a topic no stored record has ends with the not-found
\* reply and changes neither the store nor the audit log; no such command
\* gets as far as the DELETE.
C15_ForgetMissingTopic ==
    [][\A t \in DOMAIN kTasks :
          /\ (kTasks[t].pc = "idle" /\ kTasks'[t].pc = "f_delete")
                 => \E d \in DOMAIN docs : docs[d].topic = kTasks'[t].topic
          /\ \A topic \in ForgetTopics :
                 (/\ kTasks[t].pc = "idle" /\ kTasks'[t].pc = "done"
                  /\ kTasks'[t].result.error = NotFound(topic))
                     => /\ ~\E d \in DOMAIN docs : docs[d].topic = topic
                        /\ docs' = docs /\ audit' = audit /\ nextId' = nextId
      ]_vars

\* A /forget of a topic that is not stored got the not-found reply while
\* the store holds another topic's record.
C15_Witness ==
    \E t \in DOMAIN kTasks :
        /\ kTasks[t].pc = "done" /\ kTasks[t].result.error = NotFound("Mining")
        /\ \E d \in DOMAIN docs : docs[d].topic = "Fishing"

\* C17: the step that sends the audit entry of an insert, an edit, a delete
\* or an alias change leaves pinya_docs and aliases as the committed change
\* made them, whether the send succeeds or raises.
C17_AuditKeepsMutation ==
    [][\A t \in DOMAIN kTasks :
          (kTasks[t].pc \in {"audit", "f_audit", "a_audit"}
                /\ kTasks'[t].pc # kTasks[t].pc)
              => (docs' = docs /\ aliases' = aliases)
      ]_vars

\* An insert ended with the error of a failed audit send and its record is
\* in the store; an alias change ended the same way and the alias is set.
C17_Witness ==
    \E t, u \in DOMAIN kTasks :
        /\ kTasks[t].pc \in {"done", "acked"}
        /\ kTasks[t].result.error = SaveError
        /\ kTasks[t].final_id \in DOMAIN docs
        /\ kTasks[u].pc = "done" /\ kTasks[u].result.error = AliasError
        /\ "ip" \in DOMAIN aliases
        /\ audit = << >> /\ AuditChannel(cache) # None

\* C23: a call of upsert_knowledge whose INSERT or UPDATE has been committed
\* returns the id of the record it wrote and no error, also when the audit
\* send after the mutation raises; a call that returns an error has written
\* nothing.
C23_ErrorOnlyIfNothingPersisted ==
    [][\A t \in DOMAIN kTasks :
          (kTasks[t].pc = "audit" /\ kTasks'[t].pc = "done")
              => /\ kTasks'[t].result.error = None
                 /\ kTasks'[t].result.id = kTasks[t].final_id
      ]_vars

\* ------------------------------------------------------------ Admin.reindex
\* /admin maintenance reindex next to teach and edit: the command reads all
\* records once and then, record by record, embeds the text it read and
\* writes the embedding back.

\* f"Re-indexing failed: {e}"
ReindexFailed == <<"Re-indexing failed: ", "e">>

\* SELECT id, topic, content FROM pinya_docs
FetchDocs(store) ==
    {[id |-> d, topic |-> store[d].topic, content |-> store[d].content] :
        d \in DOMAIN store}

\* UPDATE pinya_docs SET embedding = $1 WHERE id = $2
SetEmbedding(store, id, vec) ==
    [d \in DOMAIN store |->
        IF d = id THEN [store[d] EXCEPT !.embedding = vec] ELSE store[d]]

ReindexSubmissions ==
    {[topic |-> "Fishing", content |-> "Use a rod", spoiler |-> "no", user |-> 1],
     [topic |-> "Farming", content |-> "Plant seeds", spoiler |-> "no", user |-> 2]}

ReindexInit ==
    /\ \/ docs = << >> /\ provider = << >>
       \/ /\ docs = <<TaughtRecord>>
          /\ provider = [x \in {EmbedText("Fishing", "Use a rod")} |-> <<1, 0>>]
    /\ nextId = Len(docs) + 1
    /\ config = << >>
    /\ cache = config
    /\ booted = TRUE
    /\ cfgTasks = << >> /\ committed = {} /\ reads = << >>
    /\ kTasks = [t \in 1..MaxTasks |-> KIdle]
    /\ audit = << >>
    /\ searches = << >>
    /\ NoMessages
    /\ NoAvatar

\* reindex up to the rows of its SELECT: the defer and the first followup
\* are outside the try, the SELECT inside; an empty table ends the command.
ReindexCall(t) ==
    /\ kTasks[t].pc = "idle"
    /\ \A u \in 1..(t - 1) : kTasks[u].pc # "idle"
    /\ LET c == [KIdle EXCEPT !.action = "Reindex"]
       IN  \/ Fail(t, c)
           \/ Finish(t, c, NoDocId, ReindexFailed)
           \/ IF FetchDocs(docs) = {}
              THEN Finish(t, c, NoDocId, <<"Database is empty. Nothing to re-index.">>)
              ELSE kTasks' = [kTasks EXCEPT ![t] =
                      [c EXCEPT !.pc = "reindex", !.snapshot = FetchDocs(docs)]]
    /\ UNCHANGED <<docs, nextId, provider, audit>>
    /\ UNCHANGED NotKnowledge

\* One round of the loop, for a fetched row in whichever order the SELECT
\* gave them: the embedding of the row's text, then the UPDATE; after the
\* last row the closing message.  An exception in either call ends the
\* command in the except.  (The progress edit comes every tenth row.)
ReindexStep(t) ==
    /\ kTasks[t].pc = "reindex"
    /\ \E doc \in kTasks[t].snapshot :
          \/ \E vec \in EmbedChoices(provider, EmbedText(doc.topic, doc.content)) :
                /\ provider' = Remember(provider, EmbedText(doc.topic, doc.content), vec)
                /\ docs' = SetEmbedding(docs, doc.id, vec)
                /\ IF kTasks[t].snapshot = {doc}
                   THEN Finish(t, kTasks[t], NoDocId, <<"Re-indexing complete!">>)
                   ELSE kTasks' = [kTasks EXCEPT ![t].snapshot = @ \ {doc}]
          \/ /\ Finish(t, kTasks[t], NoDocId, ReindexFailed)
             /\ UNCHANGED <<docs, provider>>
    /\ UNCHANGED <<nextId, audit>>
    /\ UNCHANGED NotKnowledge

ReindexNext ==
    \/ \E t \in 1..MaxTasks, sub \in ReindexSubmissions,
          docId \in {NoDocId} \cup DOMAIN docs :
           UpsertCall(t, sub, docId)
    \/ \E t \in 1..MaxTasks : Save(t)
    \/ \E t \in 1..MaxTasks : Audit(t)
    \/ \E t \in 1..MaxTasks : ReindexCall(t)
    \/ \E t \in 1..MaxTasks : ReindexStep(t)

SpecReindex == ReindexInit /\ [][ReindexNext]_vars

\* C21: whenever no teach, edit or reindex is in progress, the embedding of
\* every stored record is the provider's embedding of the text built from
\* the record's current topic and content.
C21_EmbeddingMatchesText ==
    (\A t \in DOMAIN kTasks : kTasks[t].pc \in {"idle", "done", "failed"}) =>
        \A d \in DOMAIN docs :
            LET text == EmbedText(docs[d].topic, docs[d].content)
            IN  text \in DOMAIN provider /\ docs[d].embedding = provider[text]

\* ------------------------------------------------- Admin.config_reply_role
\* /admin config reply_role add|remove role: the whitelist is read from the
\* cache, changed in memory and written back whole with ConfigManager.set.

\* str(role.id) of the role the command in slot t is about: every command
\* has a role of its own.
RoleOf(t) == IntStr(6 + t)

\* [x for x in current_list if x]
RECURSIVE Clean(_)
Clean(list) ==
    IF list = << >> THEN << >>
    ELSE (IF Head(list) = << >> THEN << >> ELSE <<Head(list)>>) \o Clean(Tail(list))

\* current_raw.split(",") if current_raw else [], cleaned
CurrentList(current_raw) ==
    IF current_raw = << >> THEN << >> ELSE Clean(Split(current_raw, ","))

\* ",".join(current_list)
RECURSIVE Join(_)
Join(list) ==
    IF list = << >> THEN << >>
    ELSE IF Len(list) = 1 THEN Head(list)
    ELSE Head(list) \o <<",">> \o Join(Tail(list))

\* current_list.remove(x): the first occurrence goes
RECURSIVE Remove(_, _)
Remove(list, x) ==
    IF list = << >> THEN << >>
    ELSE IF Head(list) = x THEN Tail(list)
    ELSE <<Head(list)>> \o Remove(Tail(list), x)

InList(list, x) == \E i \in DOMAIN list : list[i] = x

\* The whitelist an earlier run may have left: none, one role, two roles.
RoleConfigs ==
    {<< >>,
     [k \in {"allowed_roles"} |-> RoleOf(1)],
     [k \in {"allowed_roles"} |-> Join(<<RoleOf(1), RoleOf(2)>>)]}

RolesInit ==
    /\ config \in RoleConfigs
    /\ cache = config
    /\ booted = TRUE
    /\ cfgTasks = [t \in 1..MaxCfgTasks |-> CfgIdle]
    /\ committed = {<<k, config[k]>> : k \in DOMAIN config}
    /\ reads = << >>
    /\ docs = << >> /\ nextId = 1 /\ provider = << >> /\ searches = << >>
    /\ NoKnowledgeTasks /\ NoMessages
    /\ NoAvatar

\* config_reply_role(action, role) from the read of the cache to the await
\* inside ConfigManager.set: ConfigManager.get has no await, so the read, the
\* change of the list and the statement's arrival at the database are one
\* turn of the event loop.  A role already listed (add) or not listed
\* (remove) is answered without a write.
ReplyRole(t, action, ok) ==
    /\ booted
    /\ cfgTasks[t].pc = "idle"
    /\ LET role         == RoleOf(t)
           current_list == CurrentList(Get(cache, "allowed_roles", << >>))
           writes       == IF action = "add" THEN ~InList(current_list, role)
                                             ELSE InList(current_list, role)
           new_list     == IF action = "add" THEN Append(current_list, role)
                                             ELSE Remove(current_list, role)
           x            == [py |-> "str", v |-> Join(new_list)]
       IN  IF writes
           THEN /\ cfgTasks' = [cfgTasks EXCEPT ![t] =
                       [op |-> "set", key |-> "allowed_roles", value |-> x,
                        pc |-> "awaiting", dbOk |-> ok, got |-> None,
                        action |-> action]]
                /\ IF ok
                   THEN /\ config' = ConfigUpsert(config, "allowed_roles", PyStr(x))
                        /\ committed' = committed \cup {<<"allowed_roles", PyStr(x)>>}
                   ELSE UNCHANGED <<config, committed>>
           ELSE /\ cfgTasks' = [cfgTasks EXCEPT ![t] =
                       [op |-> "none", key |-> "allowed_roles", value |-> CfgIdle.value,
                        pc |-> "returned", dbOk |-> FALSE, got |-> None,
                        action |-> action]]
                /\ UNCHANGED <<config, committed>>
    /\ UNCHANGED <<cache, booted, reads>>
    /\ UNCHANGED NotConfig

RolesNext ==
    \/ \E t \in 1..MaxCfgTasks, action \in {"add", "remove"}, ok \in BOOLEAN :
           ReplyRole(t, action, ok)
    \/ \E t \in 1..MaxCfgTasks : SetResume(t)

SpecRoles == RolesInit /\ [][RolesNext]_vars

\* C22: once every reply_role command that was started is over, the stored
\* whitelist has every role whose command was a completed add, none whose
\* command was a completed remove, and no role twice.
C22_NoLostRoleUpdate ==
    LET stored == CurrentList(Get(config, "allowed_roles", << >>))
    IN  (\A t \in DOMAIN cfgTasks : cfgTasks[t].pc \in {"idle", "returned", "raised"})
            => /\ \A t \in DOMAIN cfgTasks :
                     cfgTasks[t].pc = "returned"
                         => (InList(stored, RoleOf(t)) <=> cfgTasks[t].action = "add")
               /\ \A i, j \in DOMAIN stored : stored[i] = stored[j] => i = j

\* ------------------------------- PinyaBot.update_status / update_avatar
\* update_status picks the state from the cached configuration, sets the
\* presence and calls update_avatar; a rate-limited update_avatar hands the
\* state to a task that tries again after a sleep.

\* The three branches of update_status
StatusOf(c) ==
    LET global_enabled == Get(c, "global_reply_enabled", <<"true">>)
        allowed_roles  == Get(c, "allowed_roles", << >>)
    IN  IF global_enabled = <<"false">> THEN "sleeping"
        ELSE IF allowed_roles # << >> THEN "locked"
        ELSE "online"

\* The configuration a command has stored when it calls update_status.
StatusConfigs ==
    {<< >>,
     [k \in {"global_reply_enabled"} |-> <<"false">>],
     [k \in {"allowed_roles"} |-> <<"7">>]}

\* new_delay = max(300, retry_delay * 2) if retry_delay else 300
NewDelay(retry_delay) ==
    IF retry_delay # 0
    THEN (IF retry_delay * 2 > 300 THEN retry_delay * 2 ELSE 300)
    ELSE 300

AvatarInit ==
    /\ config = << >> /\ cache = << >> /\ booted = TRUE
    /\ cfgTasks = << >> /\ committed = {} /\ reads = << >>
    /\ docs = << >> /\ nextId = 1 /\ provider = << >> /\ searches = << >>
    /\ NoKnowledgeTasks /\ NoMessages
    /\ current_avatar_state = NoAvatarState /\ avatar = NoAvatarState
    /\ requested = NoAvatarState
    /\ avTasks = [t \in 1..MaxStatus |->
                      [pc |-> "idle", state |-> NoAvatarState, retry_delay |-> 0]]

NotAvatar == <<docs, nextId, aliases, provider, searches, booted, cfgTasks,
               committed, reads, kTasks, audit, msgs, gaps>>

\* update_avatar(state, retry_delay) from its first line to its first await
\* or its return, with the file of the state there or not: the frame it
\* leaves.  The retry that wakes up does not look at current_avatar_state
\* again.
Enter(state, retry_delay, exists) ==
    IF current_avatar_state = state
    THEN [pc |-> "done", state |-> state, retry_delay |-> retry_delay]
    ELSE IF retry_delay > 600
    THEN [pc |-> "gave_up", state |-> state, retry_delay |-> retry_delay]
    ELSE IF retry_delay > 0
    THEN [pc |-> "sleeping", state |-> state, retry_delay |-> retry_delay]
    ELSE IF ~exists
    THEN [pc |-> "done", state |-> state, retry_delay |-> retry_delay]
    ELSE [pc |-> "editing", state |-> state, retry_delay |-> retry_delay]

\* A command has stored the configuration c and calls update_status, or
\* on_ready does with the configuration as it is: the two reads of the
\* cache and the choice of the state, up to the await of change_presence.
\* Calls take the slots in order.
UpdateStatus(t, c) ==
    /\ avTasks[t].pc = "idle"
    /\ \A u \in 1..(t - 1) : avTasks[u].pc # "idle"
    /\ config' = c /\ cache' = c
    /\ avTasks' = [avTasks EXCEPT ![t] =
           [pc |-> "presence", state |-> StatusOf(c), retry_delay |-> 0]]
    /\ UNCHANGED <<current_avatar_state, avatar, requested>>
    /\ UNCHANGED NotAvatar

\* change_presence returns and update_status calls update_avatar(state), or
\* change_presence raises.
Presence(t) ==
    /\ avTasks[t].pc = "presence"
    /\ \/ /\ \E exists \in BOOLEAN :
                avTasks' = [avTasks EXCEPT ![t] = Enter(avTasks[t].state, 0, exists)]
          /\ requested' = avTasks[t].state
       \/ /\ avTasks' = [avTasks EXCEPT ![t].pc = "failed"]
          /\ requested' = requested
    /\ UNCHANGED <<config, cache, current_avatar_state, avatar>>
    /\ UNCHANGED NotAvatar

\* await self.user.edit(avatar=avatar_bytes) is over: the avatar is set and
\* current_avatar_state follows; or Discord refuses with 429 or 50035 and a
\* task for update_avatar(state, new_delay) is created; or another error
\* is logged.
AvatarEdit(t) ==
    /\ avTasks[t].pc = "editing"
    /\ \/ /\ avatar' = avTasks[t].state
          /\ current_avatar_state' = avTasks[t].state
          /\ avTasks' = [avTasks EXCEPT ![t].pc = "done"]
       \/ /\ avTasks' = [avTasks EXCEPT ![t].pc = "scheduled",
                                        ![t].retry_delay = NewDelay(@)]
          /\ UNCHANGED <<avatar, current_avatar_state>>
       \/ /\ avTasks' = [avTasks EXCEPT ![t].pc = "done"]
          /\ UNCHANGED <<avatar, current_avatar_state>>
    /\ UNCHANGED <<config, cache, requested>>
    /\ UNCHANGED NotAvatar

\* The task made by create_task starts: update_avatar(state, new_delay) up to
\* its asyncio.sleep.
RetryStart(t) ==
    /\ avTasks[t].pc = "scheduled"
    /\ avTasks' = [avTasks EXCEPT ![t] =
           Enter(avTasks[t].state, avTasks[t].retry_delay, TRUE)]
    /\ UNCHANGED <<config, cache, current_avatar_state, avatar, requested>>
    /\ UNCHANGED NotAvatar

\* asyncio.sleep(retry_delay) is over: the file check, then the edit.
RetryWake(t) ==
    /\ avTasks[t].pc = "sleeping"
    /\ \/ avTasks' = [avTasks EXCEPT ![t].pc = "editing"]
       \/ avTasks' = [avTasks EXCEPT ![t].pc = "done"]
    /\ UNCHANGED <<config, cache, current_avatar_state, avatar, requested>>
    /\ UNCHANGED NotAvatar

AvatarNext ==
    \/ \E t \in 1..MaxStatus, c \in StatusConfigs : UpdateStatus(t, c)
    \/ \E t \in 1..MaxStatus : Presence(t)
    \/ \E t \in 1..MaxStatus : AvatarEdit(t)
    \/ \E t \in 1..MaxStatus : RetryStart(t)
    \/ \E t \in 1..MaxStatus : RetryWake(t)

SpecAvatar == AvatarInit /\ [][AvatarNext]_vars

\* C24: once the avatar has been set for the state that update_status
\* asked for last, the edit of a retry that was scheduled for another state
\* changes neither the avatar nor current_avatar_state.
C24_RetryNeverOverrides ==
    [][\A t \in DOMAIN avTasks :
          (/\ avTasks[t].pc = "editing" /\ avTasks'[t].pc # "editing"
           /\ avTasks[t].retry_delay > 0
           /\ avTasks[t].state # requested
           /\ current_avatar_state = requested /\ avatar = requested)
              => (avatar' = avatar /\ current_avatar_state' = current_avatar_state)
      ]_vars

====
